---- MODULE Spec2Model ----
(***************************************************************************)
(* Rock-paper-scissors-plus referee (rps_game.py): the process-wide        *)
(* GameState, the tool implementations validate_move / resolve_round /     *)
(* update_game_state, the bot strategy, the referee response, run_turn and *)
(* the main loop.                                                          *)
(*                                                                         *)
(* A Python str is modelled as a sequence of one-character strings, so     *)
(* that lower() and strip() are computed, not assumed.                     *)
(***************************************************************************)
EXTENDS Integers, Sequences, FiniteSets, TLC

VARIABLES
    state,          \* the module-level GameState instance
    pc,             \* where the module's top level / main() stands
    calls,          \* number of run_turn calls made so far
    user_input,     \* run_turn / validate_move: argument user_input
    arg_bomb_used,  \* validate_move: argument user_bomb_used
    validation,     \* run_turn: local validation (validate_move's return value)
    bot_choice,     \* run_turn: local bot_choice
    arg_user_move,  \* resolve_round: argument user_move
    arg_bot_move,   \* resolve_round: argument bot_move
    result,         \* run_turn: local result (the round's outcome record)
    explanation,    \* run_turn's return value, the narration
    final_result,   \* the result line main() prints after the loop
    snapshot        \* the dict update_game_state returned to a caller that kept it

vars == <<state, pc, calls, user_input, arg_bomb_used, validation, bot_choice,
          arg_user_move, arg_bot_move, result, explanation, final_result,
          snapshot>>

frame == <<user_input, arg_bomb_used, validation, bot_choice,
           arg_user_move, arg_bot_move, result, explanation>>

\* Bound on the number of run_turn calls an importing caller makes.
MaxCalls == 4

\* Python's None.
None == "None"

(***************************************************************************)
(* Strings                                                                 *)
(***************************************************************************)
\* The lower-case letter of each upper-case letter.
LowerOf ==
    ("A" :> "a") @@ ("B" :> "b") @@ ("C" :> "c") @@ ("D" :> "d") @@ ("E" :> "e") @@
    ("F" :> "f") @@ ("G" :> "g") @@ ("H" :> "h") @@ ("I" :> "i") @@ ("J" :> "j") @@
    ("K" :> "k") @@ ("L" :> "l") @@ ("M" :> "m") @@ ("N" :> "n") @@ ("O" :> "o") @@
    ("P" :> "p") @@ ("Q" :> "q") @@ ("R" :> "r") @@ ("S" :> "s") @@ ("T" :> "t") @@
    ("U" :> "u") @@ ("V" :> "v") @@ ("W" :> "w") @@ ("X" :> "x") @@ ("Y" :> "y") @@
    ("Z" :> "z")

Whitespace == {" ", "\t", "\n", "\r", "\f"}

lower_char(c) == IF c \in DOMAIN LowerOf THEN LowerOf[c] ELSE c

\* str.lower()
py_lower(s) == [i \in 1..Len(s) |-> lower_char(s[i])]

RECURSIVE py_lstrip(_)
py_lstrip(s) ==
    IF s # <<>> /\ Head(s) \in Whitespace THEN py_lstrip(Tail(s)) ELSE s

RECURSIVE py_rstrip(_)
py_rstrip(s) ==
    IF s # <<>> /\ s[Len(s)] \in Whitespace
    THEN py_rstrip(SubSeq(s, 1, Len(s) - 1))
    ELSE s

\* str.strip()
py_strip(s) == py_rstrip(py_lstrip(s))

\* The four move literals, as character sequences.
RockStr == <<"r","o","c","k">>
PaperStr == <<"p","a","p","e","r">>
ScissorsStr == <<"s","c","i","s","s","o","r","s">>
BombStr == <<"b","o","m","b">>

\* The name of a move literal (the str object the rest of the game compares).
MoveName(t) ==
    CASE t = RockStr -> "rock"
      [] t = PaperStr -> "paper"
      [] t = ScissorsStr -> "scissors"
      [] t = BombStr -> "bomb"
      [] OTHER -> None

\* Strings validate_move is exercised on: the move literals, variations of
\* case and surrounding whitespace, and strings that are no move.
RawInputs ==
    { RockStr,
      <<" "," ","R","O","C","K"," "," ">>,
      PaperStr,
      <<"P","a","p","e","r">>,
      ScissorsStr,
      <<"s","c","i","s","s","o","r","s","\t">>,
      BombStr,
      <<" ","B","o","m","B">>,
      <<"\n","b","o","m","b","\n">>,
      <<>>,
      <<" ">>,
      <<"l","i","z","a","r","d">>,
      <<"r"," ","o","c","k">>,
      <<"b","o","m","b","s">> }

\* The lines a user types at the prompt (or a caller passes to run_turn).
Lines ==
    { RockStr,
      <<" "," ","R","O","C","K"," "," ">>,
      <<"P","a","p","e","r">>,
      <<"s","c","i","s","s","o","r","s","\t">>,
      <<" ","B","o","m","B">>,
      <<"l","i","z","a","r","d">> }

(***************************************************************************)
(* GameState                                                               *)
(***************************************************************************)
GameState ==
    [ round |-> 0, user_score |-> 0, bot_score |-> 0,
      user_bomb_used |-> FALSE, bot_bomb_used |-> FALSE,
      game_over |-> FALSE, history |-> <<>> ]

\* The list object state.history names. It is created once (line 28) and
\* only ever appended to in place, so every reference to it reads the
\* current state.history.
HistoryRef == "state.history"

\* GameState.to_dict(): the scalar fields by value, history by reference.
to_dict(s) ==
    [ round |-> s.round, user_score |-> s.user_score, bot_score |-> s.bot_score,
      user_bomb_used |-> s.user_bomb_used, bot_bomb_used |-> s.bot_bomb_used,
      game_over |-> s.game_over, history |-> HistoryRef ]

\* No dict has been returned yet.
NoSnapshot ==
    [ round |-> -1, user_score |-> 0, bot_score |-> 0,
      user_bomb_used |-> FALSE, bot_bomb_used |-> FALSE,
      game_over |-> FALSE, history |-> HistoryRef ]

(***************************************************************************)
(* Tool implementations                                                    *)
(***************************************************************************)
valid_moves == {RockStr, PaperStr, ScissorsStr, BombStr}

validate_move_nolower(input, user_bomb_used) ==
    LET move == py_strip(input) IN
    IF move \notin valid_moves
    THEN [valid |-> FALSE, reason |-> "Invalid move", move |-> None]
    ELSE IF move = BombStr /\ user_bomb_used
    THEN [valid |-> FALSE, reason |-> "Bomb already used", move |-> None]
    ELSE [valid |-> TRUE, reason |-> None, move |-> MoveName(move)]

validate_move(input, user_bomb_used) ==
    LET move == py_strip(py_lower(input)) IN
    IF move \notin valid_moves
    THEN [valid |-> FALSE, reason |-> "Invalid move", move |-> None]
    ELSE IF move = BombStr /\ user_bomb_used
    THEN [valid |-> FALSE, reason |-> "Bomb already used", move |-> None]
    ELSE [valid |-> TRUE, reason |-> None, move |-> MoveName(move)]

resolve_round_bombfirst(user_move, bot_move) ==
    IF user_move = "invalid"
    THEN [winner |-> "invalid", user_move |-> user_move, bot_move |-> bot_move]
    ELSE IF user_move = "bomb"
    THEN [winner |-> "user", user_move |-> user_move, bot_move |-> bot_move]
    ELSE IF user_move = bot_move
    THEN [winner |-> "draw", user_move |-> user_move, bot_move |-> bot_move]
    ELSE IF bot_move = "bomb"
    THEN [winner |-> "bot", user_move |-> user_move, bot_move |-> bot_move]
    ELSE IF <<user_move, bot_move>> \in
            {<<"rock", "scissors">>, <<"paper", "rock">>, <<"scissors", "paper">>}
    THEN [winner |-> "user", user_move |-> user_move, bot_move |-> bot_move]
    ELSE [winner |-> "bot", user_move |-> user_move, bot_move |-> bot_move]

resolve_round(user_move, bot_move) ==
    IF user_move = "invalid"
    THEN [winner |-> "invalid", user_move |-> user_move, bot_move |-> bot_move]
    ELSE IF user_move = bot_move
    THEN [winner |-> "draw", user_move |-> user_move, bot_move |-> bot_move]
    ELSE IF user_move = "bomb"
    THEN [winner |-> "user", user_move |-> user_move, bot_move |-> bot_move]
    ELSE IF bot_move = "bomb"
    THEN [winner |-> "bot", user_move |-> user_move, bot_move |-> bot_move]
    ELSE IF <<user_move, bot_move>> \in
            {<<"rock", "scissors">>, <<"paper", "rock">>, <<"scissors", "paper">>}
    THEN [winner |-> "user", user_move |-> user_move, bot_move |-> bot_move]
    ELSE [winner |-> "bot", user_move |-> user_move, bot_move |-> bot_move]

\* update_game_state, field by field: s is the GameState before the call,
\* r the result passed in.
next_round_validonly(s, r) == IF r.winner = "invalid" THEN s.round ELSE s.round + 1

next_round(s, r) == s.round + 1

next_user_bomb_used_assign(s, r) == r.user_move = "bomb"

next_user_bomb_used_onwin(s, r) ==
    IF r.user_move = "bomb" /\ r.winner = "user" THEN TRUE ELSE s.user_bomb_used

next_user_bomb_used(s, r) ==
    IF r.user_move = "bomb" THEN TRUE ELSE s.user_bomb_used

next_bot_bomb_used_onwin(s, r) ==
    IF r.bot_move = "bomb" /\ r.winner = "bot" THEN TRUE ELSE s.bot_bomb_used

next_bot_bomb_used(s, r) ==
    IF r.bot_move = "bomb" THEN TRUE ELSE s.bot_bomb_used

\* <<user_score, bot_score>> after the if/elif on result["winner"].
next_scores_drawpoints(s, r) ==
    IF r.winner = "user" THEN <<s.user_score + 1, s.bot_score>>
    ELSE IF r.winner = "bot" THEN <<s.user_score, s.bot_score + 1>>
    ELSE IF r.winner = "draw" THEN <<s.user_score + 1, s.bot_score + 1>>
    ELSE <<s.user_score, s.bot_score>>

next_scores_botdefault(s, r) ==
    IF r.winner = "user" THEN <<s.user_score + 1, s.bot_score>>
    ELSE <<s.user_score, s.bot_score + 1>>

next_scores(s, r) ==
    IF r.winner = "user" THEN <<s.user_score + 1, s.bot_score>>
    ELSE IF r.winner = "bot" THEN <<s.user_score, s.bot_score + 1>>
    ELSE <<s.user_score, s.bot_score>>

next_history_validonly(s, r) ==
    IF r.winner = "invalid" THEN s.history ELSE Append(s.history, r)

next_history(s, r) == Append(s.history, r)

next_game_over_late(s, round) == IF round > 3 THEN TRUE ELSE s.game_over

next_game_over(s, round) == IF round >= 3 THEN TRUE ELSE s.game_over

\* The GameState after update_game_state(r).
update_game_state(s, r) ==
    [ round |-> next_round(s, r),
      user_bomb_used |-> next_user_bomb_used(s, r),
      bot_bomb_used |-> next_bot_bomb_used(s, r),
      user_score |-> next_scores(s, r)[1],
      bot_score |-> next_scores(s, r)[2],
      history |-> next_history(s, r),
      game_over |-> next_game_over(s, next_round(s, r)) ]

(***************************************************************************)
(* Bot strategy: the list random.choice draws from                         *)
(***************************************************************************)
bot_move_keepsbomb(s) == {"rock", "paper", "scissors", "bomb"}

bot_move_inverted(s) ==
    IF s.bot_bomb_used
    THEN {"rock", "paper", "scissors", "bomb"}
    ELSE {"rock", "paper", "scissors"}

bot_move(s) ==
    IF ~s.bot_bomb_used
    THEN {"rock", "paper", "scissors", "bomb"}
    ELSE {"rock", "paper", "scissors"}

(***************************************************************************)
(* Referee response: the f-strings, as the sequence of their pieces        *)
(***************************************************************************)
generate_referee_response(s, r) ==
    LET round_num == ToString(s.round)
        score == <<"Score: You ", ToString(s.user_score), " | Bot ",
                   ToString(s.bot_score)>>
    IN
    IF r.user_move = "invalid"
    THEN <<" Round ", round_num, ": Invalid move! Round wasted.", "\n">> \o score
    ELSE LET msg ==
               IF r.winner = "draw"
               THEN <<" Round ", round_num, ": Draw! Both played ", r.user_move, ".">>
               ELSE IF r.winner = "user"
               THEN <<" Round ", round_num, ": You win! ", r.user_move,
                      " beats ", r.bot_move, ".">>
               ELSE <<"Round ", round_num, ": Bot wins! ", r.bot_move,
                      " beats ", r.user_move, ".">>
         IN msg \o <<"\n">> \o score

\* The frame of run_turn before any call.
NoValidation == [valid |-> FALSE, reason |-> None, move |-> None]

NoResult == [winner |-> None, user_move |-> None, bot_move |-> None]

(***************************************************************************)
(* run_turn                                                                *)
(***************************************************************************)
\* The result run_turn builds itself when validation fails.
invalid_result_botwins(choice) ==
    [winner |-> "bot", user_move |-> "invalid", bot_move |-> choice]

invalid_result_draw(choice) ==
    [winner |-> "draw", user_move |-> "invalid", bot_move |-> choice]

invalid_result(choice) ==
    [winner |-> "invalid", user_move |-> "invalid", bot_move |-> choice]

run_turn(input) ==
    /\ calls' = calls + 1
    /\ user_input' = input
    /\ arg_bomb_used' = state.user_bomb_used
    /\ validation' = validate_move(input, state.user_bomb_used)
    /\ bot_choice' \in bot_move(state)
    /\ IF ~validation'.valid
       THEN /\ result' = invalid_result(bot_choice')
            /\ UNCHANGED <<arg_user_move, arg_bot_move>>
       ELSE /\ arg_user_move' = validation'.move
            /\ arg_bot_move' = bot_choice'
            /\ result' = resolve_round(validation'.move, bot_choice')
    /\ state' = update_game_state(state, result')
    /\ explanation' = generate_referee_response(state', result')

(***************************************************************************)
(* Callers                                                                 *)
(***************************************************************************)
MainTurn_unguarded ==
    /\ pc = "loop"
    /\ \E line \in Lines : run_turn(py_strip(line))
    /\ UNCHANGED <<pc, final_result, snapshot>>

\* main(): one iteration of `while not state.game_over`.
MainTurn ==
    /\ pc = "loop"
    /\ ~state.game_over
    /\ \E line \in Lines : run_turn(py_strip(line))
    /\ UNCHANGED <<pc, final_result, snapshot>>

final_summary_tiesuser(s) ==
    IF s.user_score >= s.bot_score THEN "User wins!"
    ELSE IF s.bot_score > s.user_score THEN "Bot wins!"
    ELSE "Draw!"

\* main(): the result line chosen after the loop.
final_summary(s) ==
    IF s.user_score > s.bot_score THEN "User wins!"
    ELSE IF s.bot_score > s.user_score THEN "Bot wins!"
    ELSE "Draw!"

\* main(): the loop is left and the final summary is printed.
MainSummary ==
    /\ pc = "loop"
    /\ state.game_over
    /\ final_result' = final_summary(state)
    /\ pc' = "done"
    /\ UNCHANGED <<state, calls, frame, snapshot>>

\* The module was imported (__name__ # "__main__"): the importer calls
\* run_turn itself; nothing in run_turn looks at state.game_over.
DirectTurn ==
    /\ pc = "imported"
    /\ calls < MaxCalls
    /\ \E raw \in Lines : run_turn(raw)
    /\ UNCHANGED <<pc, final_result, snapshot>>

InitFrame ==
    /\ user_input = <<>>
    /\ arg_bomb_used = FALSE
    /\ validation = NoValidation
    /\ bot_choice = None
    /\ arg_user_move = None
    /\ arg_bot_move = None
    /\ result = NoResult
    /\ explanation = <<>>

Init ==
    /\ state = GameState
    /\ pc \in {"loop", "imported"}
    /\ calls = 0
    /\ InitFrame
    /\ final_result = None
    /\ snapshot = NoSnapshot

Next == MainTurn \/ MainSummary \/ DirectTurn

Spec == Init /\ [][Next]_vars

\* The program run as a script: only main() drives the game.
InitMain == Init /\ pc = "loop"

NextMain == MainTurn \/ MainSummary

\* main() is sequential code: while a step of it is possible, one is taken
\* (the user answers every prompt).
SpecMain == InitMain /\ [][NextMain]_vars /\ WF_vars(NextMain)

(***************************************************************************)
(* The tool implementations on their own: the arguments are drawn at the   *)
(* start, the two pure functions are then applied to them.                 *)
(***************************************************************************)
Moves == {"rock", "paper", "scissors", "bomb"}

InitPure ==
    /\ state = GameState
    /\ pc = "imported"
    /\ calls = 0
    /\ user_input \in RawInputs
    /\ arg_bomb_used \in BOOLEAN
    /\ validation = NoValidation
    /\ bot_choice = None
    /\ arg_user_move \in Moves \cup {"invalid"}
    /\ arg_bot_move \in Moves
    /\ result = NoResult
    /\ explanation = <<>>
    /\ final_result = None
    /\ snapshot = NoSnapshot

CallValidate ==
    /\ validation' = validate_move(user_input, arg_bomb_used)
    /\ UNCHANGED <<state, pc, calls, user_input, arg_bomb_used, bot_choice,
                   arg_user_move, arg_bot_move, result, explanation, final_result,
                   snapshot>>

CallResolve ==
    /\ result' = resolve_round(arg_user_move, arg_bot_move)
    /\ UNCHANGED <<state, pc, calls, user_input, arg_bomb_used, validation,
                   bot_choice, arg_user_move, arg_bot_move, explanation,
                   final_result, snapshot>>

NextPure == CallValidate \/ CallResolve

SpecPure == InitPure /\ [][NextPure]_vars

(***************************************************************************)
(* Properties                                                              *)
(***************************************************************************)
\* The indices of the history entries in which `who` ("user_move" or
\* "bot_move") played bomb.
BombEntries(h, who) == {i \in DOMAIN h : h[i][who] = "bomb"}

\* A step that is a call of run_turn.
TurnStep == calls' = calls + 1

\* C1: whatever the inputs and the bot's samples, the history holds at most
\* one entry whose user_move is "bomb" and at most one whose bot_move is.
C1_BombAtMostOnce ==
    /\ Cardinality(BombEntries(state.history, "user_move")) <= 1
    /\ Cardinality(BombEntries(state.history, "bot_move")) <= 1

\* Both bombs were played in round 1 and the user has just tried bomb again.
C1_Witness ==
    /\ Len(state.history) >= 2
    /\ state.history[1].user_move = "bomb"
    /\ state.history[1].bot_move = "bomb"
    /\ py_strip(py_lower(user_input)) = BombStr
    /\ validation.reason = "Bomb already used"

\* C2 as stated: once round >= 3, nothing changes the game state any more.
C2_FinishedIsTerminal == [][state.round >= 3 => state' = state]_vars

\* C2, amended: when main() drives the game (the program run as a script),
\* round never exceeds 3 and the game state no longer changes once round >= 3.
C2_FinishedIsTerminalUnderMain ==
    /\ [](pc \in {"loop", "done"} => state.round <= 3)
    /\ [][(pc \in {"loop", "done"} /\ state.round >= 3) => state' = state]_vars

\* main() has left its loop after the third round.
C2_Witness == pc = "done" /\ state.round = 3 /\ calls = 3

\* C3: game_over holds exactly when round >= 3 (false after 0, 1, 2 turns,
\* true from the third on), and once true it is never false again.
C3_GameOverIffThreeRounds ==
    /\ [](state.game_over <=> state.round >= 3)
    /\ [](state.game_over <=> calls >= 3)
    /\ [][state.game_over => state'.game_over]_vars

\* Three turns with a user win, a bot win and a wasted round have been played.
C3_Witness ==
    /\ calls = 3
    /\ state.game_over
    /\ {state.history[i].winner : i \in DOMAIN state.history}
         = {"user", "bot", "invalid"}

\* C4: main() makes exactly three run_turn calls, each advancing round by
\* one, then leaves the loop with round = 3 and game_over true and prints the
\* summary; it never makes a fourth call.
C4_MainTerminates ==
    /\ [](calls <= 3)
    /\ [][calls' # calls => (TurnStep /\ state'.round = state.round + 1)]_vars
    /\ [](pc = "done" => /\ calls = 3
                         /\ state.round = 3
                         /\ state.game_over
                         /\ final_result \in {"User wins!", "Bot wins!", "Draw!"})
    /\ <>(pc = "done")

\* main() finished a game in which a round was wasted.
C4_Witness ==
    /\ pc = "done"
    /\ calls = 3
    /\ \E i \in DOMAIN state.history : state.history[i].winner = "invalid"

\* The claim's condition for an input to fail validation, with t the input
\* trimmed and lower-cased.
FailsValidation(input, bomb_used) ==
    LET t == py_lower(py_strip(input)) IN
    \/ t \notin {RockStr, PaperStr, ScissorsStr, BombStr}
    \/ t = BombStr /\ bomb_used

\* C5: a turn whose input fails validation increments round by exactly 1,
\* leaves both scores and user_bomb_used unchanged and appends one history
\* entry with winner = "invalid" and user_move = "invalid".
C5_WastedRound ==
    [][(TurnStep /\ FailsValidation(user_input', state.user_bomb_used)) =>
         /\ state'.round = state.round + 1
         /\ state'.user_score = state.user_score
         /\ state'.bot_score = state.bot_score
         /\ state'.user_bomb_used = state.user_bomb_used
         /\ Len(state'.history) = Len(state.history) + 1
         /\ SubSeq(state'.history, 1, Len(state.history)) = state.history
         /\ state'.history[Len(state'.history)].winner = "invalid"
         /\ state'.history[Len(state'.history)].user_move = "invalid"]_vars

\* A bomb re-attempt has just been rejected, after a round the user won.
C5_Witness ==
    /\ validation.reason = "Bomb already used"
    /\ state.user_bomb_used
    /\ state.user_score = 1
    /\ state.round = 2
    /\ state.history[2].winner = "invalid"

\* C6: round equals the length of history, and every turn appends exactly one
\* entry, leaving the earlier entries as they were.
C6_RoundIsHistoryLength ==
    /\ [](state.round = Len(state.history))
    /\ [][TurnStep => /\ Len(state'.history) = Len(state.history) + 1
                      /\ SubSeq(state'.history, 1, Len(state.history))
                           = state.history]_vars
    /\ [][state'.history # state.history => TurnStep]_vars

\* Three rounds, the second of them wasted.
C6_Witness ==
    /\ state.round = 3
    /\ Len(state.history) = 3
    /\ state.history[2].winner = "invalid"
    /\ state.history[3].winner = "draw"

\* C7: user_score + bot_score <= round, and both scores are non-negative.
C7_ScoresBoundedByRound ==
    /\ state.user_score + state.bot_score <= state.round
    /\ state.user_score >= 0
    /\ state.bot_score >= 0

\* Each side has won a round and a third round scored nothing.
C7_Witness ==
    /\ state.round = 3
    /\ state.user_score = 1
    /\ state.bot_score = 1

\* C8: once user_bomb_used or bot_bomb_used is true, no step makes it false.
C8_BombFlagsMonotonic ==
    [][/\ state.user_bomb_used => state'.user_bomb_used
       /\ state.bot_bomb_used => state'.bot_bomb_used]_vars

\* Both flags are still true two rounds after the bombs, the last round
\* being the one wasted by a bomb re-attempt.
C8_Witness ==
    /\ state.round >= 3
    /\ state.user_bomb_used
    /\ state.bot_bomb_used
    /\ state.history[1].user_move = "bomb"
    /\ state.history[1].bot_move = "bomb"
    /\ state.history[2].user_move = "rock"
    /\ state.history[3].user_move = "invalid"
    /\ validation.reason = "Bomb already used"

\* The reference validator of C9: t is the input trimmed, then lower-cased.
ReferenceValidate(input, bomb_used) ==
    LET t == py_lower(py_strip(input)) IN
    CASE t \notin {RockStr, PaperStr, ScissorsStr, BombStr} ->
           [valid |-> FALSE, reason |-> "Invalid move", move |-> None]
      [] t = BombStr /\ bomb_used ->
           [valid |-> FALSE, reason |-> "Bomb already used", move |-> None]
      [] OTHER ->
           [valid |-> TRUE, reason |-> None, move |-> MoveName(t)]

\* C9: validate_move returns what the reference validator returns, and inputs
\* that differ only in case or surrounding whitespace get the same result.
C9_ValidateMatchesReference ==
    validation # NoValidation =>
        /\ validation = ReferenceValidate(user_input, arg_bomb_used)
        /\ \A other \in RawInputs :
               py_lower(py_strip(other)) = py_lower(py_strip(user_input)) =>
                   validate_move(other, arg_bomb_used) = validation

\* "  ROCK  " has been validated as rock.
C9_Witness ==
    /\ user_input = <<" ", " ", "R", "O", "C", "K", " ", " ">>
    /\ validation = [valid |-> TRUE, reason |-> None, move |-> "rock"]

Beats == {<<"rock", "scissors">>, <<"paper", "rock">>, <<"scissors", "paper">>}

\* C10: resolve_round has a result on every pair of its domain, and it is the
\* one of the decision table; the moves are returned unchanged.
C10_ResolveMatchesTable ==
    result # NoResult =>
        LET u == arg_user_move
            b == arg_bot_move
        IN
        /\ result.winner \in {"user", "bot", "draw", "invalid"}
        /\ result.user_move = u
        /\ result.bot_move = b
        /\ u = "invalid" => result.winner = "invalid"
        /\ (u # "invalid" /\ u = b) => result.winner = "draw"
        /\ (u = "bomb" /\ b # "bomb") => result.winner = "user"
        /\ (b = "bomb" /\ u \notin {"bomb", "invalid"}) => result.winner = "bot"
        /\ <<u, b>> \in Beats => result.winner = "user"
        /\ <<b, u>> \in Beats => result.winner = "bot"

\* bomb against bomb has been resolved as a draw.
C10_Witness ==
    /\ arg_user_move = "bomb"
    /\ arg_bot_move = "bomb"
    /\ result = [winner |-> "draw", user_move |-> "bomb", bot_move |-> "bomb"]

\* The narration contracted for result r once the state s has been updated:
\* the outcome line, a newline, the score line.
ContractedNarration(s, r) ==
    LET round_num == ToString(s.round)
        first ==
            CASE r.winner = "invalid" ->
                   <<"Round ", round_num, ": Invalid move! Round wasted.">>
              [] r.winner = "draw" ->
                   <<"Round ", round_num, ": Draw! Both played ", r.user_move, ".">>
              [] r.winner = "user" ->
                   <<"Round ", round_num, ": You win! ", r.user_move,
                     " beats ", r.bot_move, ".">>
              [] r.winner = "bot" ->
                   <<"Round ", round_num, ": Bot wins! ", r.bot_move,
                     " beats ", r.user_move, ".">>
    IN first \o <<"\n">> \o
       <<"Score: You ", ToString(s.user_score), " | Bot ", ToString(s.bot_score)>>

\* C11: the narration a turn returns is the contracted text of its outcome,
\* beginning with the word "Round", with the round number and scores of the
\* state after the turn's update.
C11_NarrationIsContractedText ==
    calls > 0 => explanation = ContractedNarration(state, result)

(***************************************************************************)
(* A caller of update_game_state that keeps the dict it returns.           *)
(***************************************************************************)
\* Bound on the rounds played while a returned dict is being held.
MaxHeldRounds == 3

\* The results a round can pass to update_game_state in state s.
RoundResults(s) ==
    {resolve_round(u, b) :
        u \in Moves \ (IF s.user_bomb_used THEN {"bomb"} ELSE {}),
        b \in bot_move(s)}
    \cup {invalid_result(b) : b \in bot_move(s)}

\* update_game_state(r) called directly (it is a declared tool); the caller
\* keeps the returned dict.
ToolUpdate ==
    /\ pc = "imported"
    /\ state.round < MaxHeldRounds
    /\ \E r \in RoundResults(state) :
          /\ state' = update_game_state(state, r)
          /\ snapshot' = to_dict(state')
    /\ UNCHANGED <<pc, calls, frame, final_result>>

\* A later turn, whose own returned dict run_turn drops (lines 185, 190).
LaterTurn ==
    /\ state.round < MaxHeldRounds
    /\ DirectTurn

\* The dict as its holder reads it: history is read through the reference.
SnapshotView == [snapshot EXCEPT !.history = state.history]

InitSnapshot == Init /\ pc = "imported"

NextSnapshot == ToolUpdate \/ LaterTurn

SpecSnapshot == InitSnapshot /\ [][NextSnapshot]_vars

\* C12: a dict returned by update_game_state keeps showing what it showed
\* when it was returned: no later turn changes any of its fields, and it still
\* shows as many history entries as rounds had been played at its return.
C12_SnapshotImmutable ==
    /\ [][(snapshot # NoSnapshot /\ snapshot' = snapshot)
             => SnapshotView' = SnapshotView]_vars
    /\ [](snapshot # NoSnapshot => Len(SnapshotView.history) = snapshot.round)

\* The winners recorded in the history.
HistoryWinners == {state.history[i].winner : i \in DOMAIN state.history}

\* C13: once the game is over main() prints one result, chosen by comparing
\* the final scores: "User wins!" iff user_score > bot_score, "Bot wins!" iff
\* bot_score > user_score, "Draw!" iff they are equal; three draws or three
\* wasted rounds end 0-0 with "Draw!".
C13_FinalSummaryByScores ==
    /\ pc # "done" => final_result = None
    /\ pc = "done" =>
        /\ final_result \in {"User wins!", "Bot wins!", "Draw!"}
        /\ final_result = "User wins!" <=> state.user_score > state.bot_score
        /\ final_result = "Bot wins!" <=> state.bot_score > state.user_score
        /\ final_result = "Draw!" <=> state.user_score = state.bot_score
        /\ (HistoryWinners = {"draw"} \/ HistoryWinners = {"invalid"}) =>
              /\ state.user_score = 0
              /\ state.bot_score = 0
              /\ final_result = "Draw!"

\* Three draws on rock have been played and the summary printed.
C13_Witness ==
    /\ pc = "done"
    /\ Len(state.history) = 3
    /\ \A i \in 1..3 : state.history[i] =
           [winner |-> "draw", user_move |-> "rock", bot_move |-> "rock"]
    /\ final_result = "Draw!"

\* C14: bomb usage is recorded whoever wins: after a turn in which the bot
\* sampled bomb, bot_bomb_used is true (also in a wasted round and on a
\* bomb-vs-bomb draw); after a turn in which the user's validated move is
\* bomb, user_bomb_used is true.
C14_BombRecordedUnconditionally ==
    [][TurnStep =>
         /\ bot_choice' = "bomb" => state'.bot_bomb_used
         /\ (validation'.valid /\ validation'.move = "bomb")
               => state'.user_bomb_used
         /\ (validation'.valid /\ validation'.move = "bomb" /\ bot_choice' = "bomb")
               => /\ result'.winner = "draw"
                  /\ state'.user_bomb_used
                  /\ state'.bot_bomb_used]_vars

\* The bot's bomb fell in a round the user wasted, and is recorded.
C14_Witness ==
    /\ calls = 1
    /\ bot_choice = "bomb"
    /\ result = [winner |-> "invalid", user_move |-> "invalid", bot_move |-> "bomb"]
    /\ state.bot_bomb_used
    /\ ~state.user_bomb_used

\* C15: a turn won by the user adds 1 to user_score only, a turn won by the
\* bot adds 1 to bot_score only, a draw or an invalid round changes neither;
\* no step lowers a score or changes it by more than 1.
C15_ScoresChangeByWinner ==
    [][/\ TurnStep =>
            /\ result'.winner = "user" =>
                  /\ state'.user_score = state.user_score + 1
                  /\ state'.bot_score = state.bot_score
            /\ result'.winner = "bot" =>
                  /\ state'.bot_score = state.bot_score + 1
                  /\ state'.user_score = state.user_score
            /\ result'.winner \in {"draw", "invalid"} =>
                  /\ state'.user_score = state.user_score
                  /\ state'.bot_score = state.bot_score
       /\ state'.user_score \in {state.user_score, state.user_score + 1}
       /\ state'.bot_score \in {state.bot_score, state.bot_score + 1}]_vars

\* A bot win, then a draw, then a wasted round: the score stands at 0 - 1.
C15_Witness ==
    /\ state.round = 3
    /\ state.history[1].winner = "bot"
    /\ state.history[2].winner = "draw"
    /\ state.history[3].winner = "invalid"
    /\ state.user_score = 0
    /\ state.bot_score = 1

\* The eligible set of C16 for a value of bot_bomb_used.
EligibleMoves(bomb_used) ==
    IF bomb_used THEN {"rock", "paper", "scissors"}
    ELSE {"rock", "paper", "scissors", "bomb"}

\* A turn, by either caller.
AnyTurn == MainTurn \/ DirectTurn

\* C16: the bot's move of a turn is in the eligible set of bot_bomb_used as it
\* stood before the turn (so never "invalid", and never "bomb" once the flag is
\* true), and wherever a turn can be played every eligible move can be drawn.
C16_BotMoveFromEligibleSet ==
    /\ [][TurnStep => bot_choice' \in EligibleMoves(state.bot_bomb_used)]_vars
    /\ []((ENABLED AnyTurn) =>
            \A m \in EligibleMoves(state.bot_bomb_used) :
                ENABLED (AnyTurn /\ bot_choice' = m))

\* The bot's bomb is spent, and in a later turn it drew scissors.
C16_Witness ==
    /\ state.round = 3
    /\ state.history[1].bot_move = "bomb"
    /\ state.history[2].bot_move = "rock"
    /\ state.history[3].bot_move = "scissors"
    /\ bot_choice = "scissors"
    /\ state.bot_bomb_used

\* The number of history entries won by w.
Wins(h, w) == Cardinality({i \in DOMAIN h : h[i].winner = w})

\* C17: user_score is the number of history entries with winner = "user" and
\* bot_score the number with winner = "bot".
C17_ScoresAreWinCounts ==
    /\ state.user_score = Wins(state.history, "user")
    /\ state.bot_score = Wins(state.history, "bot")

\* Two user wins and a bot win.
C17_Witness ==
    /\ state.round = 3
    /\ state.user_score = 2
    /\ state.bot_score = 1

\* C18: user_bomb_used holds iff some history entry has user_move = "bomb",
\* bot_bomb_used iff some entry has bot_move = "bomb"; a rejected bomb
\* re-attempt is recorded with user_move = "invalid".
C18_BombFlagsMirrorHistory ==
    /\ [](state.user_bomb_used <=> BombEntries(state.history, "user_move") # {})
    /\ [](state.bot_bomb_used <=> BombEntries(state.history, "bot_move") # {})
    /\ [][(/\ TurnStep
           /\ state.user_bomb_used
           /\ py_lower(py_strip(user_input')) = BombStr)
             => state'.history[Len(state'.history)].user_move = "invalid"]_vars

\* The user's bomb met the bot's in round 1; the user's second bomb was
\* rejected in round 2.
C18_Witness ==
    /\ state.round = 2
    /\ state.history[1] = [winner |-> "draw", user_move |-> "bomb", bot_move |-> "bomb"]
    /\ state.history[2].user_move = "invalid"
    /\ user_input = <<" ", "B", "o", "m", "B">>
    /\ state.user_bomb_used
    /\ state.bot_bomb_used

\* C19: every history entry is what resolve_round returns for its own moves,
\* also the entries run_turn builds itself for invalid input; so winner is
\* "invalid" exactly when user_move is, and bot_move is one of the four moves.
C19_HistoryConsistentWithResolver ==
    \A i \in DOMAIN state.history :
        LET e == state.history[i] IN
        /\ e = resolve_round(e.user_move, e.bot_move)
        /\ e.winner = "invalid" <=> e.user_move = "invalid"
        /\ e.bot_move \in {"rock", "paper", "scissors", "bomb"}
        /\ e.user_move \in {"rock", "paper", "scissors", "bomb", "invalid"}

\* A wasted round against paper, then a user win with rock.
C19_Witness ==
    /\ state.round = 2
    /\ state.history[1] =
           [winner |-> "invalid", user_move |-> "invalid", bot_move |-> "paper"]
    /\ state.history[2] =
           [winner |-> "user", user_move |-> "rock", bot_move |-> "scissors"]

====
